---- MODULE Spec2Model ----
(***************************************************************************)
(* Model of the Blackmagic media player input path                         *)
(* (Source/BlackmagicMedia/Private/Player/BlackmagicMediaPlayer.cpp):      *)
(* FBlackmagicMediaPlayer (the consumer, run on the game thread) and       *)
(* FBlackmagicMediaPlayerEventCallback (the callback object the capture    *)
(* SDK invokes on its own thread).                                         *)
(*                                                                         *)
(* Two threads are modelled, each with a program counter: game.pc for the  *)
(* consumer (Open, Close, the destructor, TickInput, TickFetch) and sdk.pc *)
(* for the SDK (the IInputEventCallback methods and the SDK's Release).    *)
(* The SDK calls back on one thread, at any time while the callback is     *)
(* registered (also before Initialize has stored the registration), and    *)
(* keeps its reference to the callback object until it has reported the    *)
(* shutdown.                                                               *)
(* A step of the model is an atomic piece of one handler; a handler is     *)
(* split only where the other thread can observe or change shared state.   *)
(*                                                                         *)
(* Units: the application clock (FApp::GetCurrentTime) is counted in       *)
(* tenths of a second; presentation times are counted in timespan ticks.   *)
(*                                                                         *)
(* Engine code the player calls and that is not part of the source file    *)
(* is modelled by its contract: FMediaIOCorePlayerBase::Open closes the    *)
(* player first and reads the options, FMediaIOCorePlayerBase::Close       *)
(* resets CurrentState and flushes the sample queues, and a pooled         *)
(* sample's Initialize succeeds when it is given a buffer.                 *)
(***************************************************************************)
EXTENDS Integers, Sequences, FiniteSets, TLC

(* ------------------------------------------------------------------ *)
(* Bounds of the model                                                 *)
(* ------------------------------------------------------------------ *)

\* Largest configured soft maximum (MaxAudioFrameBuffer / MaxVideoFrameBuffer
\* option) a channel is opened with in the lifecycle specification.
MaxBuf == 1

\* Largest value a drop counter is driven to in the lifecycle specification
\* (frames are no longer delivered once a counter is there).
MaxDrops == 1

\* The same two bounds for the buffer specification.
MaxBufWide == 1
MaxDropsWide == 1

\* Last reading of the application clock, in tenths of a second.
MaxClock == 24

\* Largest soft maximum and number of frames of the lost-frame scenario.
MaxBufScenario == 4
MaxFrames == 10

\* How far below zero RefCounter is driven by repeated calls of Uninitialize
\* on one callback object (the call is not repeated once it is there).
MaxOverRelease == 1

(* ------------------------------------------------------------------ *)
(* Program constants                                                   *)
(* ------------------------------------------------------------------ *)

\* BlackmagicMediaPlayerHelpers::ToleratedExtraMaxBufferCount
ToleratedExtraMaxBufferCount == 2

\* const double TimeAllowedToConnect = 2.0, in tenths of a second
TimeAllowedToConnect == 20

\* the literal 0.1 of "LastHasFrameTime < 0.1", in tenths of a second
UnsetFrameTimeLimit == 1

\* ETimespan::TicksPerSecond, the unit of FTimespan::FromSeconds
TicksPerSecond == 10000000

(* ------------------------------------------------------------------ *)
(* Values                                                              *)
(* ------------------------------------------------------------------ *)

\* EMediaState, as far as the player uses it
EMediaState == {"Closed", "Preparing", "Playing", "Error", "Stopped"}

\* EMediaEvent, as far as the player emits it
EMediaEvent == {"TracksChanged", "MediaOpened", "PlaybackResumed",
                "MediaOpenFailed", "MediaClosed"}

NoTimecode == [Hours |-> -1, Minutes |-> -1, Seconds |-> -1, Frames |-> -1]

\* TOptional<FTimecode>::IsSet
IsSet(tc) == tc # NoTimecode

Max(a, b) == IF a >= b THEN a ELSE b
Min(a, b) == IF a <= b THEN a ELSE b

\* FTimespan::FromSeconds(num / den): ticks, rounded to the nearest
FromSeconds(num, den) == (2 * num * TicksPerSecond + den) \div (2 * den)

\* FTimespan::FromSeconds(VideoFrameRate.AsInterval()) for a rate of
\* `rate` frames per second
FrameInterval(rate) == FromSeconds(1, rate)

\* FTimecode::ToTimespan(VideoFrameRate) for a non-drop timecode:
\* the frame number at `rate` frames per second, as a timespan
TimecodeToTimespan(tc, rate) ==
    FromSeconds(((tc.Hours * 60 + tc.Minutes) * 60 + tc.Seconds) * rate + tc.Frames, rate)

\* lines 205: the frame limit the received frame number is validated against
FrameLimit(interlaced, rate) == IF interlaced THEN rate - 1 ELSE rate

\* lines 211-213: DecodedTimecode and DecodedTimecodeF2 of a frame
DecodedTimecode(info) == IF info.bHaveTimecode THEN info.Timecode ELSE NoTimecode

\* The odd field given the timecode of the even field
DecodedTimecodeF2Unchanged(info) == DecodedTimecode(info)

DecodedTimecodeF2(info) ==
    IF info.bHaveTimecode
    THEN [info.Timecode EXCEPT !.Frames = @ + 1]
    ELSE NoTimecode

\* lines 194, 215-220: the presentation time of the frame (of its even field)
DecodedTime(info, rate, timeSync) ==
    IF info.bHaveTimecode /\ timeSync
    THEN TimecodeToTimespan(info.Timecode, rate)
    ELSE info.PlatformTime

\* lines 195, 219: the presentation time of the odd field
DecodedTimeF2(info, rate, timeSync) ==
    IF info.bHaveTimecode /\ timeSync
    THEN TimecodeToTimespan(info.Timecode, rate) + FrameInterval(rate)
    ELSE info.PlatformTime + FrameInterval(rate)

(* ------------------------------------------------------------------ *)
(* State                                                               *)
(* ------------------------------------------------------------------ *)

VARIABLES
    player,   \* FBlackmagicMediaPlayer: alive, EventCallback (TRUE = non-null),
              \* CurrentState, bVerifyFrameDropCount, VideoFrameRate,
              \* bUseTimeSynchronization, AudioSamples and VideoSamples (the
              \* queues of Samples), AudioTrackFormat, events (the events the
              \* current or last consumer call gave to EventSink), openResult
    cb,       \* FBlackmagicMediaPlayerEventCallback: obj ("none", "live",
              \* "freed"), its members, and CallbackLock ("free", "game", "sdk")
    sdk,      \* the capture SDK: registered, holdsRef, initDelivered,
              \* shutdownPending, and its thread: pc, frame (the
              \* FFrameReceivedInfo in flight), ptr (a read of MediaPlayer)
    game,     \* the consumer thread: pc, cont (what called Uninitialize) and
              \* the locals AudioOverflowCount, VideoOverflowCount
    clock,    \* FApp::GetCurrentTime(), tenths of a second
    report,   \* what an observer of VerifyFrameDropCount_GameThread notes:
              \* whether a call that logged its counts has returned (prior),
              \* how many samples were enqueued after the running call read
              \* the queue's length (audioGrew, videoGrew) and whether a
              \* frame was refused at capacity since the drop counter was
              \* last exchanged (audioRefused, videoRefused)
    fault,    \* "none", or the undefined behaviour the program ran into
    delivered,      \* scenario counter: the frames handed to OnFrameReceived
    firstNoSignal   \* scenario clock: the time of the first no-signal event,
                    \* -1 before it

vars == <<player, cb, sdk, game, clock, report, fault, delivered, firstNoSignal>>

NoFrame ==
    [bHasInputSource |-> FALSE, AudioBuffer |-> FALSE, VideoBuffer |-> FALSE,
     Interlaced |-> FALSE, bHaveTimecode |-> FALSE, Timecode |-> NoTimecode,
     PlatformTime |-> 0, AudioRate |-> 0]

\* The members as the constructor leaves them (lines 48-67), before an object exists
NoCallback ==
    [obj |-> "none", RefCounter |-> 0, MediaPlayer |-> FALSE, MediaState |-> "Closed",
     BlackmagicIdendifier |-> FALSE,
     MaxNumAudioFrameBuffer |-> 0, MaxNumVideoFrameBuffer |-> 0,
     AudioFrameDropCount |-> 0, VideoFrameDropCount |-> 0,
     LastHasFrameTime |-> 0, bReceivedValidFrame |-> FALSE,
     LastSampleRate |-> 0, CallbackLock |-> "free"]

\* lines 418-425: the player after construction
NewPlayer ==
    [alive |-> TRUE, EventCallback |-> FALSE, CurrentState |-> "Closed",
     bVerifyFrameDropCount |-> FALSE, VideoFrameRate |-> 0,
     bUseTimeSynchronization |-> FALSE,
     AudioSamples |-> <<>>, VideoSamples |-> <<>>, AudioTrackFormat |-> 0,
     events |-> <<>>, openResult |-> "none"]

IdleSdk ==
    [registered |-> FALSE, holdsRef |-> FALSE, initDelivered |-> FALSE,
     shutdownPending |-> FALSE, pc |-> "idle", frame |-> NoFrame, ptr |-> FALSE]

IdleGame ==
    [pc |-> "idle", cont |-> "none", AudioOverflowCount |-> 0, VideoOverflowCount |-> 0]

NoReport ==
    [prior |-> FALSE, audioGrew |-> 0, videoGrew |-> 0,
     audioRefused |-> FALSE, videoRefused |-> FALSE]

Init ==
    /\ player = NewPlayer
    /\ cb = NoCallback
    /\ sdk = IdleSdk
    /\ game = IdleGame
    /\ clock = 0
    /\ report = NoReport
    /\ fault = "none"
    /\ delivered = 0
    /\ firstNoSignal = -1

(* ------------------------------------------------------------------ *)
(* The consumer thread: Open, Close, the destructor                    *)
(* ------------------------------------------------------------------ *)

Append2(q, a, b) == Append(Append(q, a), b)

\* FMediaIOCorePlayerBase::Close, called at line 448: a player that is not
\* Closed becomes Closed, its queues are flushed and the sink is told
SuperClose(p) ==
    IF p.CurrentState # "Closed"
    THEN [p EXCEPT !.CurrentState = "Closed",
                   !.AudioSamples = <<>>, !.VideoSamples = <<>>,
                   !.AudioTrackFormat = 0,
                   !.events = Append2(@, "TracksChanged", "MediaClosed")]
    ELSE p

\* A Close that leaves EventCallback as it is
CloseTailKeepsCallback(p) == SuperClose(p)

\* lines 442-448: what Close does once Uninitialize has returned
CloseTail(p) == SuperClose([p EXCEPT !.EventCallback = FALSE])

\* lines 439-441: Close (also the Close that Super::Open, the destructor and
\* TickInput make) enters Uninitialize when the player `p` holds a callback
EnterClose(p, cont) ==
    IF p.EventCallback
    THEN /\ game' = [game EXCEPT !.pc = "un_lock", !.cont = cont]
         /\ player' = p
    ELSE /\ game' = [game EXCEPT !.pc = IF cont = "open" THEN "open_new" ELSE "idle",
                                 !.cont = "none"]
         /\ player' = [CloseTail(p) EXCEPT !.alive = (cont # "destroy")]

\* lines 437-449: FBlackmagicMediaPlayer::Close, called by the host
Close ==
    /\ game.pc = "idle" /\ player.alive
    /\ EnterClose([player EXCEPT !.events = <<>>], "close")
    /\ UNCHANGED <<cb, sdk, clock, fault>>

\* lines 427-432: the destructor; the player is gone when it returns
Destroy ==
    /\ game.pc = "idle" /\ player.alive
    /\ EnterClose([player EXCEPT !.events = <<>>], "destroy")
    /\ UNCHANGED <<cb, sdk, clock, fault>>

\* lines 459-469: Open refused because the Blackmagic runtime is not
\* initialized or the card cannot be used; nothing else changes
OpenRefused ==
    /\ game.pc = "idle" /\ player.alive
    /\ player' = [player EXCEPT !.openResult = "false", !.events = <<>>]
    /\ UNCHANGED <<cb, sdk, game, clock, fault>>

\* line 471: Super::Open closes the player before it reads the options
OpenBegin ==
    /\ game.pc = "idle" /\ player.alive
    /\ EnterClose([player EXCEPT !.events = <<>>, !.openResult = "none"], "open")
    /\ UNCHANGED <<cb, sdk, clock, fault>>

\* lines 69-80: the constructor and Initialize up to the return of
\* RegisterCallbackForChannel. RefCounter counts the AddRef of line 71, SelfRef
\* and, when the registration succeeded, the reference the SDK keeps.
NewCallback(opt, registered) ==
    [NoCallback EXCEPT !.obj = "live",
                       !.RefCounter = IF registered THEN 3 ELSE 2,
                       !.MediaPlayer = TRUE,
                       !.BlackmagicIdendifier = registered,
                       !.MaxNumAudioFrameBuffer = opt.MaxNumAudioFrameBuffer,
                       !.MaxNumVideoFrameBuffer = opt.MaxNumVideoFrameBuffer]

\* lines 471-517: the options are read, the callback object is created and
\* registered. The previous callback object, if any, has been destroyed.
OpenNew(opt, registered) ==
    /\ game.pc = "open_new"
    /\ cb.obj # "live" /\ sdk.pc = "idle" /\ ~sdk.holdsRef
    /\ IF player.EventCallback
       THEN \* check(EventCallback == nullptr), line 479
            /\ fault' = "check_failed"
            /\ UNCHANGED <<player, cb, sdk, game>>
       ELSE /\ player' = [player EXCEPT !.EventCallback = TRUE,
                              !.bVerifyFrameDropCount = opt.bVerifyFrameDropCount,
                              !.VideoFrameRate = opt.VideoFrameRate,
                              !.bUseTimeSynchronization = opt.bUseTimeSynchronization]
            /\ cb' = NewCallback(opt, registered)
            /\ sdk' = [IdleSdk EXCEPT !.registered = registered, !.holdsRef = registered]
            /\ game' = [game EXCEPT !.pc = "init_store"]
            /\ UNCHANGED fault
    /\ UNCHANGED <<clock>>

\* line 81: the state Initialize stores once the registration has returned
InitializeState(c) == IF c.BlackmagicIdendifier THEN "Preparing" ELSE "Error"

\* lines 81-82 and 519-524: Initialize stores the state, SelfRef goes out of
\* scope, and Open returns or cleans up
InitStore ==
    /\ game.pc = "init_store"
    /\ cb' = [cb EXCEPT !.MediaState = InitializeState(cb), !.RefCounter = @ - 1]
    /\ IF cb.BlackmagicIdendifier
       THEN /\ game' = [game EXCEPT !.pc = "idle"]
            /\ player' = [player EXCEPT !.openResult = "true"]
       ELSE /\ game' = [game EXCEPT !.pc = "un_lock", !.cont = "openfail"]
            /\ UNCHANGED player
    /\ UNCHANGED <<sdk, clock, fault>>

(* ------------------------------------------------------------------ *)
(* Uninitialize and Release, on the consumer thread                    *)
(* ------------------------------------------------------------------ *)

\* Uninitialize without the FScopeLock of line 87
UninitializeWithoutLock ==
    /\ game.pc = "un_lock"
    /\ cb.obj = "live"
    /\ cb' = [cb EXCEPT !.MediaPlayer = FALSE,
                        !.MediaState = IF cb.BlackmagicIdendifier THEN "Stopped" ELSE @,
                        !.BlackmagicIdendifier = FALSE]
    /\ sdk' = IF cb.BlackmagicIdendifier
              THEN [sdk EXCEPT !.registered = FALSE, !.shutdownPending = TRUE]
              ELSE sdk
    /\ game' = [game EXCEPT !.pc = "un_dec"]
    /\ UNCHANGED <<player, clock, fault>>

\* lines 87-95: Uninitialize takes CallbackLock, clears the back-reference
\* and, holding the lock, unregisters a registered callback
UninitializeLock ==
    /\ game.pc = "un_lock"
    /\ cb.CallbackLock = "free"
    /\ IF cb.obj # "live"
       THEN /\ fault' = "uninitialize_on_freed"
            /\ UNCHANGED <<cb, sdk, game>>
       ELSE /\ cb' = [cb EXCEPT !.CallbackLock = "game",
                                !.MediaPlayer = FALSE,
                                !.MediaState = IF cb.BlackmagicIdendifier THEN "Stopped" ELSE @,
                                !.BlackmagicIdendifier = FALSE]
            /\ sdk' = IF cb.BlackmagicIdendifier
                      THEN [sdk EXCEPT !.registered = FALSE, !.shutdownPending = TRUE]
                      ELSE sdk
            /\ game' = [game EXCEPT !.pc = "un_dec"]
            /\ UNCHANGED fault
    /\ UNCHANGED <<player, clock>>

\* An idempotent Uninitialize: a call after the first releases nothing
UninitializeReleaseOnce ==
    /\ game.pc = "un_dec"
    /\ IF cb.obj # "live"
       THEN /\ fault' = "release_on_freed"
            /\ UNCHANGED <<cb, game>>
       ELSE /\ cb' = [cb EXCEPT !.RefCounter = IF game.cont = "again" THEN @ ELSE @ - 1]
            /\ game' = [game EXCEPT !.pc = "un_chk"]
            /\ UNCHANGED fault
    /\ UNCHANGED <<player, sdk, clock>>

\* line 149, called at line 97: --RefCounter
UninitializeRelease ==
    /\ game.pc = "un_dec"
    /\ IF cb.obj # "live"
       THEN /\ fault' = "release_on_freed"
            /\ UNCHANGED <<cb, game>>
       ELSE /\ cb' = [cb EXCEPT !.RefCounter = @ - 1]
            /\ game' = [game EXCEPT !.pc = "un_chk"]
            /\ UNCHANGED fault
    /\ UNCHANGED <<player, sdk, clock>>

\* lines 150-153: the counter is read again and the object deleted at zero
UninitializeReleaseCheck ==
    /\ game.pc = "un_chk"
    /\ IF cb.obj # "live"
       THEN /\ fault' = "release_on_freed"
            /\ UNCHANGED <<cb, game>>
       ELSE /\ cb' = IF cb.RefCounter = 0 THEN [cb EXCEPT !.obj = "freed"] ELSE cb
            /\ game' = [game EXCEPT !.pc = "un_unlock"]
            /\ UNCHANGED fault
    /\ UNCHANGED <<player, sdk, clock>>

\* What the caller of Uninitialize does next: Open's cleanup (lines 521-524)
\* or the rest of Close (lines 442-448), and then the caller of that Close
AfterUninitialize(p, cont) ==
    CASE cont = "openfail" -> [p EXCEPT !.EventCallback = FALSE, !.openResult = "false"]
      [] cont = "destroy"  -> [CloseTail(p) EXCEPT !.alive = FALSE]
      [] OTHER             -> CloseTail(p)

\* line 98: the scope of Lock ends, CallbackLock (a member of the callback
\* object) is unlocked, and Uninitialize returns to its caller
UninitializeUnlock ==
    /\ game.pc = "un_unlock"
    /\ \/ /\ cb.obj # "live"
          /\ fault' = "unlock_of_freed_lock"
          /\ UNCHANGED <<cb, game, player>>
       \/ \* on a destroyed object the unlock may as well go unnoticed
          /\ cb' = [cb EXCEPT !.CallbackLock = "free"]
          /\ player' = AfterUninitialize(player, game.cont)
          /\ game' = [game EXCEPT !.pc = IF game.cont = "open" THEN "open_new" ELSE "idle",
                                  !.cont = "none"]
          /\ UNCHANGED fault
    /\ UNCHANGED <<sdk, clock>>

(* ------------------------------------------------------------------ *)
(* The consumer thread: TickInput and TickFetch                        *)
(* ------------------------------------------------------------------ *)

\* line 531: the state TickInput reads
NewState == IF player.EventCallback THEN cb.MediaState ELSE "Closed"

\* lines 533-547: the events of a state change, and the state taken over
TickEvents(newState) ==
    CASE newState = "Playing" -> <<"TracksChanged", "MediaOpened", "PlaybackResumed">>
      [] newState = "Error"   -> <<"MediaOpenFailed">>
      [] OTHER                -> <<>>

\* TickInput that emits the events of the state it reads on every call
TickInputEveryTick ==
    /\ game.pc = "idle" /\ player.alive
    /\ IF player.EventCallback /\ cb.obj # "live"
       THEN /\ fault' = "tick_on_freed"
            /\ UNCHANGED <<player, game>>
       ELSE /\ UNCHANGED fault
            /\ LET p == [player EXCEPT !.CurrentState = NewState,
                                       !.events = TickEvents(NewState)]
               IN  IF NewState = "Error" /\ NewState # player.CurrentState
                   THEN EnterClose(p, "tick")
                   ELSE player' = p /\ UNCHANGED game
    /\ UNCHANGED <<cb, sdk, clock>>

\* lines 528-555: FBlackmagicMediaPlayer::TickInput; on Error it calls Close
TickInput ==
    /\ game.pc = "idle" /\ player.alive
    /\ IF player.EventCallback /\ cb.obj # "live"
       THEN /\ fault' = "tick_on_freed"
            /\ UNCHANGED <<player, game>>
       ELSE /\ UNCHANGED fault
            /\ IF NewState # player.CurrentState
               THEN LET p == [player EXCEPT !.CurrentState = NewState,
                                           !.events = TickEvents(NewState)]
                    IN  IF NewState = "Error"
                        THEN EnterClose(p, "tick")
                        ELSE player' = p /\ UNCHANGED game
               ELSE /\ player' = [player EXCEPT !.events = <<>>]
                    /\ UNCHANGED game
    /\ UNCHANGED <<cb, sdk, clock>>

\* lines 576-579
IsHardwareReady == player.EventCallback /\ cb.MediaState = "Playing"

\* PopAudio / PopVideo called `n` times: each call removes the oldest sample
\* of a queue that has one
Pop(q, n) == SubSeq(q, Min(n, Len(q)) + 1, Len(q))

\* The overflow that leaves one sample too many
OverflowCountOffByOne(q, maxNum) == Max(Len(q) - maxNum - 1, 0)

\* lines 112 and 119: the number of samples above the configured maximum
OverflowCount(q, maxNum) == Max(Len(q) - maxNum, 0)

\* lines 557-569 and 112: TickFetch on a ready player refreshes the audio track
\* format and VerifyFrameDropCount_GameThread reads the audio queue's length
TickFetch ==
    /\ game.pc = "idle" /\ player.alive
    /\ IsHardwareReady
    /\ IF cb.obj # "live" \/ ~cb.MediaPlayer
       THEN /\ fault' = "fetch_on_freed"
            /\ UNCHANGED <<player, game>>
       ELSE /\ player' = [player EXCEPT !.AudioTrackFormat = cb.LastSampleRate]
            /\ game' = [game EXCEPT !.pc = "vf_audio",
                          !.AudioOverflowCount =
                              OverflowCount(player.AudioSamples, cb.MaxNumAudioFrameBuffer),
                          !.VideoOverflowCount = 0]
            /\ UNCHANGED fault
    /\ UNCHANGED <<cb, sdk, clock>>

\* line 127: InterlockedExchange(&AudioFrameDropCount, 0) leaves 0 behind
ExchangeAudioFrameDropCount(c) == [c EXCEPT !.AudioFrameDropCount = 0]

\* A read of VideoFrameDropCount that leaves the counter as it is
ReadVideoFrameDropCount(c) == c

\* line 133: InterlockedExchange(&VideoFrameDropCount, 0) leaves 0 behind
ExchangeVideoFrameDropCount(c) == [c EXCEPT !.VideoFrameDropCount = 0]

\* lines 113-119: the audio samples are popped, the video queue's length is read
VerifyPopAudio ==
    /\ game.pc = "vf_audio"
    /\ player' = [player EXCEPT !.AudioSamples = Pop(@, game.AudioOverflowCount)]
    /\ game' = [game EXCEPT !.pc = "vf_video",
                  !.VideoOverflowCount =
                      OverflowCount(player.VideoSamples, cb.MaxNumVideoFrameBuffer)]
    /\ UNCHANGED <<cb, sdk, clock, fault>>

\* lines 120-131: the video samples are popped; with drop logging the audio
\* counter is exchanged with 0 and added to the count that is logged
VerifyPopVideo ==
    /\ game.pc = "vf_video"
    /\ player' = [player EXCEPT !.VideoSamples = Pop(@, game.VideoOverflowCount)]
    /\ IF player.bVerifyFrameDropCount
       THEN /\ game' = [game EXCEPT !.pc = "vf_count",
                          !.AudioOverflowCount = @ + cb.AudioFrameDropCount]
            /\ cb' = ExchangeAudioFrameDropCount(cb)
       ELSE /\ game' = IdleGame
            /\ UNCHANGED cb
    /\ UNCHANGED <<sdk, clock, fault>>

\* The video counter replaces the count of the popped samples
VerifyCountVideoAssigned ==
    /\ game.pc = "vf_count"
    /\ game' = [game EXCEPT !.pc = "vf_log",
                  !.VideoOverflowCount = cb.VideoFrameDropCount]
    /\ cb' = ExchangeVideoFrameDropCount(cb)
    /\ UNCHANGED <<player, sdk, clock, fault>>

\* lines 133-134: the video counter is exchanged with 0 and added to the
\* count that is logged
VerifyCountVideo ==
    /\ game.pc = "vf_count"
    /\ game' = [game EXCEPT !.pc = "vf_log",
                  !.VideoOverflowCount = @ + cb.VideoFrameDropCount]
    /\ cb' = ExchangeVideoFrameDropCount(cb)
    /\ UNCHANGED <<player, sdk, clock, fault>>

\* lines 128-131 and 134-139: the two counts have been logged when they are
\* above 0; VerifyFrameDropCount_GameThread and TickFetch return
VerifyReturn ==
    /\ game.pc = "vf_log"
    /\ game' = IdleGame
    /\ UNCHANGED <<player, cb, sdk, clock, fault>>

(* ------------------------------------------------------------------ *)
(* OnFrameReceived                                                     *)
(* ------------------------------------------------------------------ *)

\* line 177: the event reports no input source and carries no audio
IsNoSignal(info) == ~info.bHasInputSource /\ ~info.AudioBuffer

\* lines 181-184: the time the connection is counted from
ConnectStart(c, now) ==
    IF c.LastHasFrameTime < UnsetFrameTimeLimit THEN now ELSE c.LastHasFrameTime

\* The input given up once the allowed time has passed, not only after it
IsSignalLostAtLimit(c, now) ==
    c.bReceivedValidFrame \/ now - ConnectStart(c, now) >= TimeAllowedToConnect

\* The input given up by the allowed time alone, a frame received or not
IsSignalLostByTimeOnly(c, now) ==
    now - ConnectStart(c, now) > TimeAllowedToConnect

\* line 185: the input is given up
IsSignalLost(c, now) ==
    c.bReceivedValidFrame \/ now - ConnectStart(c, now) > TimeAllowedToConnect

\* lines 177-191: the callback object after a no-signal event at time `now`
NoSignalReceived(c, now) ==
    [c EXCEPT !.LastHasFrameTime = ConnectStart(c, now),
              !.MediaState = IF IsSignalLost(c, now) THEN "Error" ELSE @]

\* line 239: the audio queue is at its tolerated capacity
AudioQueueFull(numAudioSamples, c) ==
    numAudioSamples >= c.MaxNumAudioFrameBuffer * ToleratedExtraMaxBufferCount

\* The capacity test that counts an interlaced frame as one sample
VideoQueueFullOneSample(numVideoSamples, interlaced, c) ==
    numVideoSamples >= c.MaxNumVideoFrameBuffer * ToleratedExtraMaxBufferCount

\* The capacity test against the configured maximum, without the tolerance
VideoQueueFullAtMaximum(numVideoSamples, interlaced, c) ==
    numVideoSamples + (IF interlaced THEN 1 ELSE 0) >= c.MaxNumVideoFrameBuffer

\* lines 267-269: the video queue has no room for the frame; an interlaced
\* frame counts one sample more
VideoQueueFull(numVideoSamples, interlaced, c) ==
    numVideoSamples + (IF interlaced THEN 1 ELSE 0)
        >= c.MaxNumVideoFrameBuffer * ToleratedExtraMaxBufferCount

\* lines 248-256: the audio sample of a frame
AudioSample(info, p) ==
    [Time |-> DecodedTime(info, p.VideoFrameRate, p.bUseTimeSynchronization),
     Timecode |-> DecodedTimecode(info)]

\* lines 311-323: the sample of a progressive picture
TextureSample(info, p) ==
    [Field |-> "progressive",
     Time |-> DecodedTime(info, p.VideoFrameRate, p.bUseTimeSynchronization),
     Timecode |-> DecodedTimecode(info)]

\* lines 328-341: the sample of the even lines of an interlaced picture
TextureSampleEven(info, p) ==
    [Field |-> "even",
     Time |-> DecodedTime(info, p.VideoFrameRate, p.bUseTimeSynchronization),
     Timecode |-> DecodedTimecode(info)]

\* lines 344-357: the sample of the odd lines of an interlaced picture
TextureSampleOdd(info, p) ==
    [Field |-> "odd",
     Time |-> DecodedTimeF2(info, p.VideoFrameRate, p.bUseTimeSynchronization),
     Timecode |-> DecodedTimecodeF2(info)]

\* lines 237-263: the audio buffer of a frame received while Playing
AudioReceived(c, p, info) ==
    IF ~info.AudioBuffer THEN [cb |-> c, player |-> p]
    ELSE IF AudioQueueFull(Len(p.AudioSamples), c)
    THEN [cb |-> IF p.bVerifyFrameDropCount
                 THEN [c EXCEPT !.AudioFrameDropCount = @ + 1] ELSE c,
          player |-> p]
    ELSE [cb |-> [c EXCEPT !.LastSampleRate = info.AudioRate],
          player |-> [p EXCEPT !.AudioSamples = Append(@, AudioSample(info, p))]]

\* lines 265-361: the video buffer of a frame received while Playing
VideoReceived(c, p, info) ==
    IF ~info.VideoBuffer THEN [cb |-> c, player |-> p]
    ELSE IF VideoQueueFull(Len(p.VideoSamples), info.Interlaced, c)
    THEN [cb |-> IF p.bVerifyFrameDropCount
                 THEN [c EXCEPT !.VideoFrameDropCount = @ + 1] ELSE c,
          player |-> p]
    ELSE [cb |-> c,
          player |-> [p EXCEPT !.VideoSamples =
                        IF info.Interlaced
                        THEN Append2(@, TextureSampleEven(info, p), TextureSampleOdd(info, p))
                        ELSE Append(@, TextureSample(info, p))]]

\* OnFrameReceived without the test of line 197
FrameReceivedWithoutGate(c, p, info, now) ==
    IF IsNoSignal(info) THEN [cb |-> NoSignalReceived(c, now), player |-> p]
    ELSE LET c1 == [c EXCEPT !.bReceivedValidFrame = @ \/ info.bHasInputSource]
             a == AudioReceived(c1, p, info)
         IN  VideoReceived(a.cb, a.player, info)

\* lines 177-362: the callback object and the player after OnFrameReceived
\* has handled `info` at time `now`, the back-reference being set
FrameReceived(c, p, info, now) ==
    IF IsNoSignal(info) THEN [cb |-> NoSignalReceived(c, now), player |-> p]
    ELSE LET c1 == [c EXCEPT !.bReceivedValidFrame = @ \/ info.bHasInputSource]
         IN  IF c1.MediaState # "Playing" THEN [cb |-> c1, player |-> p]
             ELSE LET a == AudioReceived(c1, p, info)
                  IN  VideoReceived(a.cb, a.player, info)

(* ------------------------------------------------------------------ *)
(* The SDK thread                                                      *)
(* ------------------------------------------------------------------ *)

\* The SDK starts a callback on a registered callback object, one at a time
SdkMayDispatch == sdk.pc = "idle" /\ sdk.registered /\ sdk.holdsRef

\* The SDK reports the end of a registration once it has been unregistered
SdkMayShutdown == sdk.pc = "idle" /\ ~sdk.registered /\ sdk.shutdownPending /\ sdk.holdsRef

\* The SDK gives up its reference after unregistration, when no callback of
\* its thread is in flight
SdkMayRelease == sdk.pc = "idle" /\ ~sdk.registered /\ ~sdk.shutdownPending /\ sdk.holdsRef

\* lines 156-159
OnInitializationCompleted(bSuccess) ==
    /\ SdkMayDispatch /\ ~sdk.initDelivered
    /\ IF cb.obj # "live"
       THEN fault' = "callback_on_freed" /\ UNCHANGED <<cb, sdk>>
       ELSE /\ cb' = [cb EXCEPT !.MediaState = IF bSuccess THEN "Playing" ELSE "Error"]
            /\ sdk' = [sdk EXCEPT !.initDelivered = TRUE]
            /\ UNCHANGED fault
    /\ UNCHANGED <<player, game, clock>>

\* lines 161-164
OnShutdownCompleted ==
    /\ SdkMayShutdown
    /\ IF cb.obj # "live"
       THEN fault' = "callback_on_freed" /\ UNCHANGED <<cb, sdk>>
       ELSE /\ cb' = [cb EXCEPT !.MediaState = "Closed"]
            /\ sdk' = [sdk EXCEPT !.shutdownPending = FALSE]
            /\ UNCHANGED fault
    /\ UNCHANGED <<player, game, clock>>

\* line 166: the SDK calls OnFrameReceived, which goes for CallbackLock
OnFrameReceivedCall(info) ==
    /\ SdkMayDispatch
    /\ sdk' = [sdk EXCEPT !.pc = "frame_lock", !.frame = info]
    /\ UNCHANGED <<player, cb, game, clock, fault>>

\* lines 170-175: the lock is taken and the back-reference tested; a cleared
\* back-reference ends the callback
OnFrameReceivedLock ==
    /\ sdk.pc = "frame_lock"
    /\ cb.CallbackLock = "free"
    /\ IF cb.obj # "live"
       THEN fault' = "frame_on_freed_callback" /\ UNCHANGED <<cb, sdk>>
       ELSE /\ IF cb.MediaPlayer
               THEN /\ cb' = [cb EXCEPT !.CallbackLock = "sdk"]
                    /\ sdk' = [sdk EXCEPT !.pc = "frame_body"]
               ELSE /\ sdk' = [sdk EXCEPT !.pc = "idle", !.frame = NoFrame]
                    /\ UNCHANGED cb
            /\ UNCHANGED fault
    /\ UNCHANGED <<player, game, clock>>

\* lines 177-363: the frame is handled through the back-reference, the lock
\* is released and the callback returns
OnFrameReceivedBody ==
    /\ sdk.pc = "frame_body"
    /\ IF cb.obj # "live"
       THEN fault' = "frame_on_freed_callback" /\ UNCHANGED <<cb, sdk, player>>
       ELSE IF ~cb.MediaPlayer
       THEN fault' = "frame_null_player" /\ UNCHANGED <<cb, sdk, player>>
       ELSE IF ~player.alive
       THEN fault' = "frame_on_freed_player" /\ UNCHANGED <<cb, sdk, player>>
       ELSE LET r == FrameReceived(cb, player, sdk.frame, clock)
            IN  /\ cb' = [r.cb EXCEPT !.CallbackLock = "free"]
                /\ player' = r.player
                /\ sdk' = [sdk EXCEPT !.pc = "idle", !.frame = NoFrame]
                /\ UNCHANGED fault
    /\ UNCHANGED <<game, clock>>

\* line 367: OnFrameFormatChanged reads the back-reference, without the lock
OnFrameFormatChangedCall ==
    /\ SdkMayDispatch
    /\ IF cb.obj # "live"
       THEN fault' = "callback_on_freed" /\ UNCHANGED sdk
       ELSE /\ sdk' = [sdk EXCEPT !.pc = "format_url", !.ptr = cb.MediaPlayer]
            /\ UNCHANGED fault
    /\ UNCHANGED <<player, cb, game, clock>>

\* lines 367-368: GetUrl is called on the player read, and the state is set
OnFrameFormatChangedBody ==
    /\ sdk.pc = "format_url"
    /\ IF cb.obj # "live"
       THEN fault' = "callback_on_freed" /\ UNCHANGED <<cb, sdk>>
       ELSE IF sdk.ptr /\ ~player.alive
       THEN fault' = "format_on_freed_player" /\ UNCHANGED <<cb, sdk>>
       ELSE /\ cb' = [cb EXCEPT !.MediaState = "Error"]
            /\ sdk' = [sdk EXCEPT !.pc = "idle", !.ptr = FALSE]
            /\ UNCHANGED fault
    /\ UNCHANGED <<player, game, clock>>

\* line 149: the SDK releases its reference: --RefCounter
SdkRelease ==
    /\ SdkMayRelease
    /\ IF cb.obj # "live"
       THEN fault' = "release_on_freed" /\ UNCHANGED <<cb, sdk>>
       ELSE /\ cb' = [cb EXCEPT !.RefCounter = @ - 1]
            /\ sdk' = [sdk EXCEPT !.pc = "rel_chk", !.holdsRef = FALSE]
            /\ UNCHANGED fault
    /\ UNCHANGED <<player, game, clock>>

\* lines 150-153: the counter is read again and the object deleted at zero
SdkReleaseCheck ==
    /\ sdk.pc = "rel_chk"
    /\ IF cb.obj # "live"
       THEN fault' = "release_on_freed" /\ UNCHANGED <<cb, sdk>>
       ELSE /\ cb' = IF cb.RefCounter = 0 THEN [cb EXCEPT !.obj = "freed"] ELSE cb
            /\ sdk' = [sdk EXCEPT !.pc = "idle"]
            /\ UNCHANGED fault
    /\ UNCHANGED <<player, game, clock>>

(* ------------------------------------------------------------------ *)
(* The environment                                                     *)
(* ------------------------------------------------------------------ *)

\* Time passes: FApp::GetCurrentTime grows by `d`
Advance(d) ==
    /\ clock + d <= MaxClock
    /\ clock' = clock + d
    /\ UNCHANGED <<player, cb, sdk, game, fault>>

\* The media framework fetches the oldest audio sample
FetchAudio ==
    /\ player.AudioSamples # <<>>
    /\ player' = [player EXCEPT !.AudioSamples = Tail(@)]
    /\ UNCHANGED <<cb, sdk, game, clock, fault>>

\* The media framework fetches the oldest video sample
FetchVideo ==
    /\ player.VideoSamples # <<>>
    /\ player' = [player EXCEPT !.VideoSamples = Tail(@)]
    /\ UNCHANGED <<cb, sdk, game, clock, fault>>

(* ------------------------------------------------------------------ *)
(* Inputs and specifications                                           *)
(* ------------------------------------------------------------------ *)

\* The frame rate (frames per second) the channels of the model are opened
\* with, a bound of the model like those above
ModelFrameRate == 30

Timecode(h, m, sec, f) == [Hours |-> h, Minutes |-> m, Seconds |-> sec, Frames |-> f]

\* A FFrameReceivedInfo without timecode
Frame(source, audio, video, interlaced) ==
    [bHasInputSource |-> source, AudioBuffer |-> audio, VideoBuffer |-> video,
     Interlaced |-> interlaced, bHaveTimecode |-> FALSE, Timecode |-> NoTimecode,
     PlatformTime |-> 0, AudioRate |-> IF audio THEN 48 ELSE 0]

NoSignalFrame == Frame(FALSE, FALSE, FALSE, FALSE)

\* The options of Open: the two buffer depths, drop logging, the frame rate
\* and time synchronization
Options(maxAudio, maxVideo, verify, timeSync) ==
    [MaxNumAudioFrameBuffer |-> maxAudio, MaxNumVideoFrameBuffer |-> maxVideo,
     bVerifyFrameDropCount |-> verify, VideoFrameRate |-> ModelFrameRate,
     bUseTimeSynchronization |-> timeSync]

\* The frames of the lifecycle specification: no signal and a progressive picture
LifecycleFrames == {NoSignalFrame, Frame(TRUE, FALSE, TRUE, FALSE)}

LifecycleOptions ==
    {Options(n, n, v, FALSE) : n \in 1..MaxBuf, v \in BOOLEAN}

\* The drop counters are driven no further than `maxDrops`
DropsBelow(maxDrops) ==
    cb.AudioFrameDropCount < maxDrops /\ cb.VideoFrameDropCount < maxDrops

\* A step of the program: it has not run into undefined behaviour
Running == fault = "none" /\ UNCHANGED <<report, delivered, firstNoSignal>>

\* The lifecycle specification: every call of the host and every callback of
\* the SDK, from the construction of the player on
Next ==
    \/ Running /\ Close
    \/ Running /\ Destroy
    \/ Running /\ OpenRefused
    \/ Running /\ OpenBegin
    \/ Running /\ \E opt \in LifecycleOptions, registered \in BOOLEAN : OpenNew(opt, registered)
    \/ Running /\ InitStore
    \/ Running /\ UninitializeLock
    \/ Running /\ UninitializeRelease
    \/ Running /\ UninitializeReleaseCheck
    \/ Running /\ UninitializeUnlock
    \/ Running /\ TickInput
    \/ Running /\ TickFetch
    \/ Running /\ VerifyPopAudio
    \/ Running /\ VerifyPopVideo
    \/ Running /\ VerifyCountVideo
    \/ Running /\ VerifyReturn
    \/ Running /\ \E bSuccess \in BOOLEAN : OnInitializationCompleted(bSuccess)
    \/ Running /\ OnShutdownCompleted
    \/ Running /\ \E info \in LifecycleFrames : DropsBelow(MaxDrops) /\ OnFrameReceivedCall(info)
    \/ Running /\ OnFrameReceivedLock
    \/ Running /\ OnFrameReceivedBody
    \/ Running /\ OnFrameFormatChangedCall
    \/ Running /\ OnFrameFormatChangedBody
    \/ Running /\ SdkRelease
    \/ Running /\ SdkReleaseCheck
    \/ Running /\ FetchVideo
    \/ Running /\ Advance(TimeAllowedToConnect + 1)

Spec == Init /\ [][Next]_vars

(* ------------------------------------------------------------------ *)
(* The observer of the buffer specifications                           *)
(* ------------------------------------------------------------------ *)

\* The state of a player that has opened a channel with `opt`, whose
\* registration succeeded and was stored, before the SDK made a callback
Opened(opt) ==
    /\ player = [NewPlayer EXCEPT !.EventCallback = TRUE,
                     !.bVerifyFrameDropCount = opt.bVerifyFrameDropCount,
                     !.VideoFrameRate = opt.VideoFrameRate,
                     !.bUseTimeSynchronization = opt.bUseTimeSynchronization,
                     !.openResult = "true"]
    /\ cb = [NewCallback(opt, TRUE) EXCEPT !.RefCounter = 2, !.MediaState = "Preparing"]
    /\ sdk = [IdleSdk EXCEPT !.registered = TRUE, !.holdsRef = TRUE]
    /\ game = IdleGame
    /\ fault = "none"

\* The state once the SDK has reported the initialization and TickInput has
\* seen the channel Playing
OpenedPlaying(opt) ==
    /\ player = [NewPlayer EXCEPT !.EventCallback = TRUE,
                     !.CurrentState = "Playing",
                     !.bVerifyFrameDropCount = opt.bVerifyFrameDropCount,
                     !.VideoFrameRate = opt.VideoFrameRate,
                     !.bUseTimeSynchronization = opt.bUseTimeSynchronization,
                     !.events = TickEvents("Playing"),
                     !.openResult = "true"]
    /\ cb = [NewCallback(opt, TRUE) EXCEPT !.RefCounter = 2, !.MediaState = "Playing"]
    /\ sdk = [IdleSdk EXCEPT !.registered = TRUE, !.holdsRef = TRUE, !.initDelivered = TRUE]
    /\ game = IdleGame
    /\ fault = "none"

\* The scenario variables before anything was observed
Unobserved == clock = 0 /\ report = NoReport /\ delivered = 0 /\ firstNoSignal = -1

\* VerifyFrameDropCount_GameThread has read the length of the audio queue
\* (line 111) and of the video queue (line 112) and has not returned
AudioLengthRead == game.pc \in {"vf_audio", "vf_video", "vf_count", "vf_log"}
VideoLengthRead == game.pc \in {"vf_video", "vf_count", "vf_log"}

\* What the observer notes of a step: the samples that OnFrameReceived enqueues
\* (counted up to the configured maximum, beyond which the queue is full) after VerifyFrameDropCount_GameThread has read the queue's length, a frame
\* it refuses since the drop counter was last read, and a call of
\* VerifyFrameDropCount_GameThread that has logged its counts
Observer ==
    LET audioAdded == Len(player'.AudioSamples) - Len(player.AudioSamples)
        videoAdded == Len(player'.VideoSamples) - Len(player.VideoSamples)
        counted == cb.MediaState = "Playing" /\ ~IsNoSignal(sdk.frame)
                       /\ player.bVerifyFrameDropCount
    IN  report' =
          IF game.pc = "vf_video" /\ game'.pc = "vf_count"
          THEN [report EXCEPT !.audioRefused = FALSE]
          ELSE IF game.pc = "vf_count" /\ game'.pc = "vf_log"
          THEN [report EXCEPT !.videoRefused = FALSE]
          ELSE IF game.pc = "vf_video" /\ game'.pc = "idle"
          THEN [report EXCEPT !.audioGrew = 0, !.videoGrew = 0]
          ELSE IF game.pc = "vf_log" /\ game'.pc = "idle"
          THEN [report EXCEPT !.prior = TRUE, !.audioGrew = 0, !.videoGrew = 0]
          ELSE IF sdk.pc = "frame_body" /\ sdk'.pc = "idle"
          THEN [report EXCEPT
                  !.audioGrew = IF AudioLengthRead
                                THEN Min(@ + audioAdded, cb.MaxNumAudioFrameBuffer) ELSE @,
                  !.videoGrew = IF VideoLengthRead
                                THEN Min(@ + videoAdded, cb.MaxNumVideoFrameBuffer) ELSE @,
                  !.audioRefused = @ \/ (counted /\ sdk.frame.AudioBuffer /\ audioAdded = 0),
                  !.videoRefused = @ \/ (counted /\ sdk.frame.VideoBuffer /\ videoAdded = 0)]
          ELSE report

(* ------------------------------------------------------------------ *)
(* The buffer specification: a playing channel, frames of every kind,  *)
(* ticks and fetches                                                   *)
(* ------------------------------------------------------------------ *)

BufferOptions ==
    {Options(n, n, verify, FALSE) : n \in 1..MaxBufWide, verify \in BOOLEAN}

\* audio alone, a progressive picture, an interlaced picture, a progressive
\* picture with audio
BufferFrames ==
    {Frame(FALSE, TRUE, FALSE, FALSE), Frame(TRUE, FALSE, TRUE, FALSE),
     Frame(TRUE, FALSE, TRUE, TRUE), Frame(TRUE, TRUE, TRUE, FALSE)}

BufferInit == Unobserved /\ \E opt \in BufferOptions : OpenedPlaying(opt)

BufferNext ==
    \/ Running /\ TickInput
    \/ Running /\ TickFetch
    \/ Running /\ VerifyPopAudio
    \/ Running /\ VerifyPopVideo
    \/ Running /\ VerifyCountVideo
    \/ Running /\ VerifyReturn
    \/ Running /\ \E info \in BufferFrames : DropsBelow(MaxDropsWide) /\ OnFrameReceivedCall(info)
    \/ Running /\ OnFrameReceivedLock
    \/ Running /\ OnFrameReceivedBody
    \/ Running /\ FetchAudio
    \/ Running /\ FetchVideo

SpecBuffer == BufferInit /\ [][BufferNext]_vars

(* ------------------------------------------------------------------ *)
(* The maintenance specification: the buffer specification under the   *)
(* observer, with audio and progressive pictures                       *)
(* ------------------------------------------------------------------ *)

MaintainFrames == {Frame(FALSE, TRUE, FALSE, FALSE), Frame(TRUE, FALSE, TRUE, FALSE)}

Observed == fault = "none" /\ Observer /\ UNCHANGED <<delivered, firstNoSignal>>

MaintainNext ==
    \/ TickInput /\ Observed
    \/ TickFetch /\ Observed
    \/ VerifyPopAudio /\ Observed
    \/ VerifyPopVideo /\ Observed
    \/ VerifyCountVideo /\ Observed
    \/ VerifyReturn /\ Observed
    \/ (\E info \in MaintainFrames : DropsBelow(MaxDropsWide) /\ OnFrameReceivedCall(info)) /\ Observed
    \/ OnFrameReceivedLock /\ Observed
    \/ OnFrameReceivedBody /\ Observed
    \/ FetchAudio /\ Observed
    \/ FetchVideo /\ Observed

SpecMaintain == BufferInit /\ [][MaintainNext]_vars

(* ------------------------------------------------------------------ *)
(* The lost-frame scenario: progressive pictures, then one call of     *)
(* VerifyFrameDropCount_GameThread                                     *)
(* ------------------------------------------------------------------ *)

ScenarioOptions == {Options(n, n, TRUE, FALSE) : n \in 1..MaxBufScenario}

ScenarioInit == Unobserved /\ \E opt \in ScenarioOptions : OpenedPlaying(opt)

\* A picture is delivered before the maintenance step
Deliver ==
    /\ game.pc = "idle" /\ ~report.prior
    /\ delivered < MaxFrames
    /\ OnFrameReceivedCall(Frame(TRUE, FALSE, TRUE, FALSE))
    /\ delivered' = delivered + 1
    /\ Observer /\ UNCHANGED firstNoSignal

\* The one Tick of the scenario, after the pictures
TickOnce == sdk.pc = "idle" /\ ~report.prior /\ TickFetch

ScenarioNext ==
    \/ Deliver
    \/ OnFrameReceivedLock /\ Observed
    \/ OnFrameReceivedBody /\ Observed
    \/ TickOnce /\ Observed
    \/ VerifyPopAudio /\ Observed
    \/ VerifyPopVideo /\ Observed
    \/ VerifyCountVideo /\ Observed
    \/ VerifyReturn /\ Observed

SpecScenario == ScenarioInit /\ [][ScenarioNext]_vars

(* ------------------------------------------------------------------ *)
(* The no-signal specification: an opened channel, the clock, and      *)
(* frames with and without a signal                                    *)
(* ------------------------------------------------------------------ *)

NoSignalInit == Unobserved /\ \E opt \in LifecycleOptions : Opened(opt)

\* The time at which OnFrameReceived handles the first no-signal event
NoteNoSignal ==
    /\ firstNoSignal' =
         IF sdk.pc = "frame_body" /\ sdk'.pc = "idle" /\ IsNoSignal(sdk.frame)
              /\ firstNoSignal = -1
         THEN clock ELSE firstNoSignal
    /\ fault = "none"
    /\ UNCHANGED <<report, delivered>>

NoSignalNext ==
    \/ OnInitializationCompleted(TRUE) /\ NoteNoSignal
    \/ (\E info \in LifecycleFrames : DropsBelow(MaxDrops) /\ OnFrameReceivedCall(info)) /\ NoteNoSignal
    \/ OnFrameReceivedLock /\ NoteNoSignal
    \/ OnFrameReceivedBody /\ NoteNoSignal
    \/ Advance(1) /\ NoteNoSignal

SpecNoSignal == NoSignalInit /\ [][NoSignalNext]_vars

(* ------------------------------------------------------------------ *)
(* The decoding specification: pictures with and without timecode      *)
(* ------------------------------------------------------------------ *)

DecodeOptions == {Options(MaxBuf, MaxBuf, FALSE, timeSync) : timeSync \in BOOLEAN}

\* A FFrameReceivedInfo with a picture and, with `have`, the timecode `tc`
TimecodeFrame(interlaced, have, tc) ==
    [Frame(TRUE, FALSE, TRUE, interlaced) EXCEPT
        !.bHaveTimecode = have, !.Timecode = IF have THEN tc ELSE NoTimecode,
        !.PlatformTime = FrameInterval(ModelFrameRate) * 3]

\* the first frame of a second, the last frame an interlaced input may carry
\* (line 205) and the last frame of a second
DecodeTimecodes ==
    {Timecode(0, 0, 0, f) : f \in {0, ModelFrameRate - 2, ModelFrameRate - 1}}

DecodeFrames ==
    {TimecodeFrame(TRUE, TRUE, tc) : tc \in DecodeTimecodes}
        \cup {TimecodeFrame(TRUE, FALSE, NoTimecode),
              TimecodeFrame(FALSE, TRUE, Timecode(0, 0, 0, ModelFrameRate - 1))}

DecodeInit == Unobserved /\ \E opt \in DecodeOptions : OpenedPlaying(opt)

DecodeNext ==
    \/ Running /\ \E info \in DecodeFrames : OnFrameReceivedCall(info)
    \/ Running /\ OnFrameReceivedLock
    \/ Running /\ OnFrameReceivedBody
    \/ Running /\ FetchVideo

SpecDecode == DecodeInit /\ [][DecodeNext]_vars

(* ------------------------------------------------------------------ *)
(* The repeated-call specification: Uninitialize is called on a        *)
(* callback object again after a first call has returned. The player   *)
(* makes no such call (Close and Open null EventCallback after the     *)
(* first); the caller here is a holder of the pointer that does.       *)
(* ------------------------------------------------------------------ *)

\* lines 85-98 entered once more on a callback object whose back-reference a
\* returned call has cleared
UninitializeAgain ==
    /\ game.pc = "idle" /\ ~player.EventCallback
    /\ cb.obj # "none" /\ ~cb.MediaPlayer
    /\ cb.RefCounter > -MaxOverRelease
    /\ game' = [game EXCEPT !.pc = "un_lock", !.cont = "again"]
    /\ UNCHANGED <<player, cb, sdk, clock, fault>>

AgainInit == Unobserved /\ \E opt \in LifecycleOptions : Opened(opt)

AgainNext ==
    \/ Running /\ Close
    \/ Running /\ UninitializeAgain
    \/ Running /\ UninitializeLock
    \/ Running /\ UninitializeRelease
    \/ Running /\ UninitializeReleaseCheck
    \/ Running /\ UninitializeUnlock
    \/ Running /\ \E bSuccess \in BOOLEAN : OnInitializationCompleted(bSuccess)
    \/ Running /\ OnShutdownCompleted
    \/ Running /\ \E info \in LifecycleFrames : DropsBelow(MaxDrops) /\ OnFrameReceivedCall(info)
    \/ Running /\ OnFrameReceivedLock
    \/ Running /\ OnFrameReceivedBody
    \/ Running /\ SdkRelease
    \/ Running /\ SdkReleaseCheck

SpecAgain == AgainInit /\ [][AgainNext]_vars

(* ------------------------------------------------------------------ *)
(* The teardown specification: an open channel is closed or destroyed  *)
(* while the SDK calls back. Both threads are scheduled, and a thread  *)
(* that waits for CallbackLock gets it when the lock is released again *)
(* and again (frames come a frame interval apart): a call of           *)
(* Uninitialize that can take its next step time and again takes it,   *)
(* and so does a callback or Release the SDK thread has begun. The     *)
(* host's calls and the SDK's events are not forced.                   *)
(* ------------------------------------------------------------------ *)

\* The next step of a call of Uninitialize (lines 85-98)
UninitializeStep ==
    \/ UninitializeLock
    \/ UninitializeRelease
    \/ UninitializeReleaseCheck
    \/ UninitializeUnlock

\* The next step of a callback or Release the SDK thread is in
CallbackStep ==
    \/ OnFrameReceivedLock
    \/ OnFrameReceivedBody
    \/ OnFrameFormatChangedBody
    \/ SdkReleaseCheck

TeardownInit == Unobserved /\ \E opt \in LifecycleOptions : Opened(opt)

TeardownNext ==
    \/ Running /\ Close
    \/ Running /\ Destroy
    \/ Running /\ TickInput
    \/ Running /\ UninitializeLock
    \/ Running /\ UninitializeRelease
    \/ Running /\ UninitializeReleaseCheck
    \/ Running /\ UninitializeUnlock
    \/ Running /\ \E bSuccess \in BOOLEAN : OnInitializationCompleted(bSuccess)
    \/ Running /\ OnShutdownCompleted
    \/ Running /\ \E info \in LifecycleFrames : DropsBelow(MaxDrops) /\ OnFrameReceivedCall(info)
    \/ Running /\ OnFrameReceivedLock
    \/ Running /\ OnFrameReceivedBody
    \/ Running /\ OnFrameFormatChangedCall
    \/ Running /\ OnFrameFormatChangedBody
    \/ Running /\ SdkRelease
    \/ Running /\ SdkReleaseCheck

SpecTeardown ==
    /\ TeardownInit /\ [][TeardownNext]_vars
    /\ SF_vars(Running /\ UninitializeStep)
    /\ SF_vars(Running /\ CallbackStep)

(* ------------------------------------------------------------------ *)
(* The signal specification: a channel is opened and the SDK delivers  *)
(* events of every kind in every capture state, from the registration  *)
(* on; the consumer ticks and the media framework fetches.             *)
(* ------------------------------------------------------------------ *)

\* no signal, audio without an input source, a progressive picture, a
\* progressive picture with audio
SignalFrames ==
    {NoSignalFrame, Frame(FALSE, TRUE, FALSE, FALSE),
     Frame(TRUE, FALSE, TRUE, FALSE), Frame(TRUE, TRUE, TRUE, FALSE)}

\* The options of the signal specification: queues of every capacity
SignalOptions == {Options(n, n, FALSE, FALSE) : n \in 1..MaxBuf}

\* OnFrameReceived handles its event: it has the lock, has found the
\* back-reference set (line 172), and returns
HandlesFrame == sdk.pc = "frame_body" /\ sdk'.pc = "idle"

\* Open creates the callback object of a new channel
OpensChannel == game.pc = "open_new" /\ game'.pc = "init_store"

\* What is noted of a step: `delivered` is 1 once OnFrameReceived has handled
\* an event with an input source on the channel that is open, 0 before;
\* `firstNoSignal` is the time of the first event without input source and
\* audio buffer that OnFrameReceived handles after that, -1 before
NoteSource ==
    /\ delivered' =
         IF OpensChannel THEN 0
         ELSE IF HandlesFrame /\ sdk.frame.bHasInputSource THEN 1
         ELSE delivered
    /\ firstNoSignal' =
         IF OpensChannel THEN -1
         ELSE IF HandlesFrame /\ IsNoSignal(sdk.frame) /\ delivered = 1 /\ firstNoSignal = -1
         THEN clock
         ELSE firstNoSignal
    /\ fault = "none"
    /\ UNCHANGED report

SignalNext ==
    \/ OpenBegin /\ NoteSource
    \/ (\E opt \in SignalOptions, registered \in BOOLEAN : OpenNew(opt, registered)) /\ NoteSource
    \/ InitStore /\ NoteSource
    \/ UninitializeLock /\ NoteSource
    \/ UninitializeRelease /\ NoteSource
    \/ UninitializeReleaseCheck /\ NoteSource
    \/ UninitializeUnlock /\ NoteSource
    \/ TickInput /\ NoteSource
    \/ (\E bSuccess \in BOOLEAN : OnInitializationCompleted(bSuccess)) /\ NoteSource
    \/ OnShutdownCompleted /\ NoteSource
    \/ (\E info \in SignalFrames : DropsBelow(MaxDrops) /\ OnFrameReceivedCall(info)) /\ NoteSource
    \/ OnFrameReceivedLock /\ NoteSource
    \/ OnFrameReceivedBody /\ NoteSource
    \/ OnFrameFormatChangedCall /\ NoteSource
    \/ OnFrameFormatChangedBody /\ NoteSource
    \/ SdkRelease /\ NoteSource
    \/ SdkReleaseCheck /\ NoteSource
    \/ FetchAudio /\ NoteSource
    \/ FetchVideo /\ NoteSource
    \/ Advance(TimeAllowedToConnect + 1) /\ NoteSource

SpecSignal == Init /\ [][SignalNext]_vars

(* ------------------------------------------------------------------ *)
(* Properties                                                          *)
(* ------------------------------------------------------------------ *)

\* C1 (Spec). Teardown safety: whatever the interleaving of Uninitialize with
\* an OnFrameReceived in flight, the callback never dereferences a null
\* back-reference and never runs on a freed callback object or against a
\* freed player; while it handles the frame it holds CallbackLock and the
\* back-reference is set, so it completes before Uninitialize clears the
\* back-reference, or it finds the back-reference cleared and returns.
C1_TeardownSafety ==
    /\ fault \notin {"frame_null_player", "frame_on_freed_callback", "frame_on_freed_player"}
    /\ sdk.pc = "frame_body" =>
          /\ cb.obj = "live" /\ cb.CallbackLock = "sdk"
          /\ cb.MediaPlayer /\ player.alive
          /\ game.pc \notin {"un_dec", "un_chk", "un_unlock"}

\* An OnFrameReceived waits for the lock that Uninitialize holds, the
\* back-reference being cleared
C1_Witness ==
    /\ sdk.pc = "frame_lock" /\ cb.obj = "live"
    /\ cb.CallbackLock = "game" /\ ~cb.MediaPlayer
    /\ game.pc = "un_dec"

\* C2 (SpecBuffer). Hard capacity: the audio queue never holds more than
\* 2 x MaxNumAudioFrameBuffer samples and the video queue never more than
\* 2 x MaxNumVideoFrameBuffer; a frame that would exceed the bound is not
\* enqueued, and an interlaced frame enqueues its two samples or none.
C2_HardCapacity ==
    /\ Len(player.AudioSamples) <= ToleratedExtraMaxBufferCount * cb.MaxNumAudioFrameBuffer
    /\ Len(player.VideoSamples) <= ToleratedExtraMaxBufferCount * cb.MaxNumVideoFrameBuffer
    /\ [][sdk.pc = "frame_body" /\ sdk'.pc = "idle" =>
            /\ Len(player'.AudioSamples) - Len(player.AudioSamples)
                   \in (IF sdk.frame.AudioBuffer THEN {0, 1} ELSE {0})
            /\ Len(player'.VideoSamples) - Len(player.VideoSamples)
                   \in (IF ~sdk.frame.VideoBuffer THEN {0}
                        ELSE IF sdk.frame.Interlaced THEN {0, 2} ELSE {0, 1})
            /\ Len(player'.AudioSamples) <= ToleratedExtraMaxBufferCount * cb.MaxNumAudioFrameBuffer
            /\ Len(player'.VideoSamples) <= ToleratedExtraMaxBufferCount * cb.MaxNumVideoFrameBuffer]_vars

\* Both queues are at their hard capacity and a frame was refused
C2_Witness ==
    /\ Len(player.AudioSamples) = ToleratedExtraMaxBufferCount * cb.MaxNumAudioFrameBuffer
    /\ Len(player.VideoSamples) = ToleratedExtraMaxBufferCount * cb.MaxNumVideoFrameBuffer
    /\ cb.VideoFrameDropCount > 0

\* C3 as stated (SpecMaintain). When VerifyFrameDropCount_GameThread returns,
\* the audio queue holds at most MaxNumAudioFrameBuffer samples and the video
\* queue at most MaxNumVideoFrameBuffer, whatever OnFrameReceived did meanwhile.
C3_SoftBoundEveryInterleaving ==
    [][game.pc \in {"vf_video", "vf_log"} /\ game'.pc = "idle" =>
          /\ Len(player'.AudioSamples) <= cb.MaxNumAudioFrameBuffer
          /\ Len(player'.VideoSamples) <= cb.MaxNumVideoFrameBuffer]_vars

\* C3 as amended (SpecMaintain). When VerifyFrameDropCount_GameThread returns,
\* each queue holds at most its configured maximum plus the samples that
\* OnFrameReceived enqueued after the step had read that queue's length.
C3_SoftBoundAfterMaintenance ==
    [][game.pc \in {"vf_video", "vf_log"} /\ game'.pc = "idle" =>
          /\ Len(player'.AudioSamples) <= cb.MaxNumAudioFrameBuffer + report.audioGrew
          /\ Len(player'.VideoSamples) <= cb.MaxNumVideoFrameBuffer + report.videoGrew]_vars

\* The step has popped video samples down to the maximum, and no frame came
\* in after it read the length
C3_Witness ==
    /\ game.pc = "vf_count" /\ game.VideoOverflowCount > 0
    /\ report.videoGrew = 0
    /\ Len(player.VideoSamples) = cb.MaxNumVideoFrameBuffer

\* C4 as stated (SpecBuffer). OnFrameReceived increments a drop counter only
\* while the queue holds 2 x its configured maximum, for progressive and
\* interlaced frames alike.
C4_DropsOnlyAtTwiceMaximum ==
    [][/\ cb'.AudioFrameDropCount > cb.AudioFrameDropCount =>
            Len(player.AudioSamples) >= ToleratedExtraMaxBufferCount * cb.MaxNumAudioFrameBuffer
       /\ cb'.VideoFrameDropCount > cb.VideoFrameDropCount =>
            Len(player.VideoSamples) >= ToleratedExtraMaxBufferCount * cb.MaxNumVideoFrameBuffer]_vars

\* C4 as amended (SpecBuffer). OnFrameReceived increments a drop counter only
\* while the queue holds 2 x its configured maximum or, for an interlaced
\* frame, one sample less; each increment is by one, with drop logging on,
\* and nothing is enqueued to that queue.
C4_DropsOnlyAtCapacity ==
    [][/\ cb'.AudioFrameDropCount > cb.AudioFrameDropCount =>
            /\ Len(player.AudioSamples) = ToleratedExtraMaxBufferCount * cb.MaxNumAudioFrameBuffer
            /\ cb'.AudioFrameDropCount = cb.AudioFrameDropCount + 1
            /\ player.bVerifyFrameDropCount
            /\ player'.AudioSamples = player.AudioSamples
       /\ cb'.VideoFrameDropCount > cb.VideoFrameDropCount =>
            /\ Len(player.VideoSamples) >=
                 ToleratedExtraMaxBufferCount * cb.MaxNumVideoFrameBuffer
                     - (IF sdk.frame.Interlaced THEN 1 ELSE 0)
            /\ cb'.VideoFrameDropCount = cb.VideoFrameDropCount + 1
            /\ player.bVerifyFrameDropCount
            /\ player'.VideoSamples = player.VideoSamples]_vars

\* A frame was counted as dropped and the video queue is one sample short of
\* 2 x its maximum
C4_Witness ==
    /\ cb.VideoFrameDropCount > 0 /\ sdk.pc = "idle"
    /\ Len(player.VideoSamples) = ToleratedExtraMaxBufferCount * cb.MaxNumVideoFrameBuffer - 1

\* C5 (SpecNoSignal). No-signal timeout: before any frame with an input
\* source, a no-signal event sets the state to Error only when its clock
\* reading is more than TimeAllowedToConnect after that of the first
\* no-signal event.
C5_NoSignalTimeout ==
    [][/\ sdk.pc = "frame_body" /\ sdk'.pc = "idle" /\ IsNoSignal(sdk.frame)
       /\ ~cb.bReceivedValidFrame
       /\ cb.MediaState # "Error" /\ cb'.MediaState = "Error"
       => /\ firstNoSignal # -1
          /\ clock - firstNoSignal > TimeAllowedToConnect]_vars

\* The no-signal path has given the input up, no valid frame ever received
C5_Witness ==
    /\ cb.MediaState = "Error" /\ ~cb.bReceivedValidFrame
    /\ firstNoSignal > 0
    /\ clock - firstNoSignal > TimeAllowedToConnect

\* C6 as stated (SpecDecode). An interlaced frame with a timecode of the
\* frame rate, received while Playing with room in the video queue, enqueues
\* the even and then the odd sample; their times differ by one interval of
\* the frame rate and the odd timecode is the timecode one frame later, with
\* the carry into the seconds after the last frame of a second.
C6_FieldDoublingNextTimecode ==
    [][/\ sdk.pc = "frame_body" /\ sdk'.pc = "idle"
       /\ sdk.frame.Interlaced /\ sdk.frame.VideoBuffer /\ sdk.frame.bHaveTimecode
       /\ sdk.frame.Timecode.Frames \in 0..(player.VideoFrameRate - 1)
       /\ cb.MediaState = "Playing"
       /\ ~VideoQueueFull(Len(player.VideoSamples), TRUE, cb)
       => LET n == Len(player.VideoSamples)
              even == player'.VideoSamples[n + 1]
              odd == player'.VideoSamples[n + 2]
              tc == sdk.frame.Timecode
              next == IF tc.Frames + 1 < player.VideoFrameRate
                      THEN [tc EXCEPT !.Frames = @ + 1]
                      ELSE [tc EXCEPT !.Frames = 0, !.Seconds = @ + 1]
          IN  /\ Len(player'.VideoSamples) = n + 2
              /\ SubSeq(player'.VideoSamples, 1, n) = player.VideoSamples
              /\ even.Field = "even" /\ odd.Field = "odd"
              /\ odd.Time - even.Time = FrameInterval(player.VideoFrameRate)
              /\ even.Timecode = tc
              /\ odd.Timecode = next]_vars

\* C6 as amended (SpecDecode). The same frame enqueues the even and then the
\* odd sample; their times differ by one interval of the frame rate and the
\* odd timecode is the even one with the frame number one higher, hours,
\* minutes and seconds unchanged: the timecode one frame later when the frame
\* number is below the limit of line 205, the frame rate as frame number
\* after the last frame of a second.
C6_FieldDoubling ==
    [][/\ sdk.pc = "frame_body" /\ sdk'.pc = "idle"
       /\ sdk.frame.Interlaced /\ sdk.frame.VideoBuffer /\ sdk.frame.bHaveTimecode
       /\ sdk.frame.Timecode.Frames \in 0..(player.VideoFrameRate - 1)
       /\ cb.MediaState = "Playing"
       /\ ~VideoQueueFull(Len(player.VideoSamples), TRUE, cb)
       => LET n == Len(player.VideoSamples)
              even == player'.VideoSamples[n + 1]
              odd == player'.VideoSamples[n + 2]
              tc == sdk.frame.Timecode
          IN  /\ Len(player'.VideoSamples) = n + 2
              /\ SubSeq(player'.VideoSamples, 1, n) = player.VideoSamples
              /\ even.Field = "even" /\ odd.Field = "odd"
              /\ odd.Time - even.Time = FrameInterval(player.VideoFrameRate)
              /\ even.Timecode = tc
              /\ odd.Timecode.Hours = tc.Hours /\ odd.Timecode.Minutes = tc.Minutes
              /\ odd.Timecode.Seconds = tc.Seconds
              /\ odd.Timecode.Frames = tc.Frames + 1
              /\ tc.Frames < FrameLimit(TRUE, player.VideoFrameRate)
                     => odd.Timecode.Frames < player.VideoFrameRate
              /\ tc.Frames = player.VideoFrameRate - 1
                     => odd.Timecode.Frames = player.VideoFrameRate]_vars

\* The two samples of an interlaced frame whose timecode was the last frame
\* of a second are in the queue
C6_Witness ==
    \E i \in 1..(Len(player.VideoSamples) - 1) :
        /\ player.VideoSamples[i].Field = "even"
        /\ player.VideoSamples[i + 1].Field = "odd"
        /\ player.VideoSamples[i].Timecode.Frames = player.VideoFrameRate - 1
        /\ player.VideoSamples[i + 1].Timecode.Frames = player.VideoFrameRate

\* C7 (SpecScenario). Lost-frame accounting: with drop logging, `delivered`
\* progressive pictures handled while Playing from an empty queue and then one
\* call of VerifyFrameDropCount_GameThread: the call leaves
\* min(delivered, MaxNumVideoFrameBuffer) samples and logs
\* max(delivered - MaxNumVideoFrameBuffer, 0) lost video frames.
C7_LostFrameAccounting ==
    game.pc = "vf_log" =>
        /\ Len(player.VideoSamples) = Min(delivered, cb.MaxNumVideoFrameBuffer)
        /\ game.VideoOverflowCount = Max(delivered - cb.MaxNumVideoFrameBuffer, 0)
        /\ game.AudioOverflowCount = 0

\* The most pictures with the deepest buffer: some were refused at capacity
\* and some popped
C7_Witness ==
    /\ game.pc = "vf_log"
    /\ delivered = MaxFrames /\ cb.MaxNumVideoFrameBuffer = MaxBufScenario
    /\ game.VideoOverflowCount = MaxFrames - MaxBufScenario
    /\ Len(player.VideoSamples) = MaxBufScenario

\* C8 as stated (SpecMaintain). After a call of VerifyFrameDropCount_GameThread
\* has logged its counts, the next call logs 0 for a kind when no frame of
\* that kind was refused at capacity since the counter was read.
C8_NextCallReportsZero ==
    [][report.prior =>
          /\ game.pc = "vf_video" /\ game'.pc = "vf_count" /\ ~report.audioRefused
                 => game'.AudioOverflowCount = 0
          /\ game.pc = "vf_count" /\ game'.pc = "vf_log" /\ ~report.videoRefused
                 => game'.VideoOverflowCount = 0]_vars

\* C8 as amended (SpecMaintain). After a call has logged its counts, the next
\* call finds the drop counter of a kind at 0 when no frame of that kind was
\* refused at capacity since the counter was read: the count it logs is the
\* number of samples it found above the configured maximum, and the counter
\* is 0 again after the read.
C8_NextCallReportsTrimmed ==
    [][/\ report.prior /\ game.pc = "vf_video" /\ game'.pc = "vf_count" /\ ~report.audioRefused
          => /\ cb.AudioFrameDropCount = 0
             /\ game'.AudioOverflowCount = game.AudioOverflowCount
       /\ report.prior /\ game.pc = "vf_count" /\ game'.pc = "vf_log" /\ ~report.videoRefused
          => /\ cb.VideoFrameDropCount = 0
             /\ game'.VideoOverflowCount = game.VideoOverflowCount
       /\ game.pc = "vf_video" /\ game'.pc = "vf_count" => cb'.AudioFrameDropCount = 0
       /\ game.pc = "vf_count" /\ game'.pc = "vf_log" => cb'.VideoFrameDropCount = 0]_vars

\* A second call has popped video samples and is about to read the video
\* counter, no frame having been refused since the first call read it
C8_Witness ==
    /\ report.prior /\ game.pc = "vf_count"
    /\ ~report.videoRefused
    /\ game.VideoOverflowCount > 0

\* C9 (Spec). Error is terminal: the capture state of an open channel (the
\* callback object's back-reference is set) that is Error stays Error until
\* the consumer closes the channel.
C9_ErrorIsTerminal ==
    [][cb.obj = "live" /\ cb.MediaPlayer /\ cb.MediaState = "Error" /\ fault' = "none"
          => cb'.MediaState = "Error" \/ ~cb'.MediaPlayer]_vars

\* C10 (Spec). Error surfaces on the next Tick: a TickInput that reads Error
\* emits MediaOpenFailed once and enters the teardown, a TickInput after the
\* teardown emits nothing, and the Error of an open channel is not taken back
\* before a TickInput has read it.
C10_ErrorSurfaces ==
    [][/\ game.pc = "idle" /\ game'.cont = "tick" =>
            /\ player'.events = <<"MediaOpenFailed">>
            /\ game'.pc = "un_lock"
       /\ cb.obj = "live" /\ cb.MediaPlayer /\ cb.MediaState = "Error" /\ fault' = "none"
            /\ player.CurrentState # "Error"
            => \/ cb'.MediaState = "Error"
               \/ game.pc = "un_lock" /\ game'.pc = "un_dec"]_vars

\* The notifications of a channel that starts to play
OpenedNotifications == <<"TracksChanged", "MediaOpened", "PlaybackResumed">>

\* The call of the consumer that ran last emitted MediaOpened or PlaybackResumed
EmitsOpened(p) ==
    \E i \in 1..Len(p.events) : p.events[i] \in {"MediaOpened", "PlaybackResumed"}

\* C11 (Spec). Playing notifications: the step that takes the player's state to
\* Playing is a TickInput that read Playing from the callback object, and it
\* emits exactly TracksChanged, MediaOpened, PlaybackResumed in that order; a
\* call that finds the player's state Playing already, or leaves it other than
\* Playing, emits neither MediaOpened nor PlaybackResumed.
C11_PlayingNotifications ==
    [][/\ player.CurrentState # "Playing" /\ player'.CurrentState = "Playing"
          => /\ cb.MediaState = "Playing"
             /\ player'.events = OpenedNotifications
       /\ player'.events # player.events /\ EmitsOpened(player')
          => /\ player.CurrentState # "Playing" /\ player'.CurrentState = "Playing"
             /\ player'.events = OpenedNotifications]_vars

\* A TickInput has taken the player to Playing and emitted the three
\* notifications
C11_Witness ==
    /\ player.CurrentState = "Playing"
    /\ player.events = OpenedNotifications
    /\ cb.MediaState = "Playing"
    /\ fault = "none"

\* The consumer thread is inside Uninitialize (lines 85-98)
InUninitialize == game.pc \in {"un_lock", "un_dec", "un_chk", "un_unlock"}

\* C12 (Spec). Idempotent close: a Close (of the host or of the destructor)
\* enters Uninitialize only on a callback object the player holds, that is
\* alive and whose back-reference Uninitialize has not cleared before, so a
\* Close that follows a Close calls nothing; and a Close runs into no error:
\* it does not release, free or unlock a callback object that was freed.
C12_IdempotentClose ==
    /\ game.pc = "un_lock" =>
          player.EventCallback /\ cb.obj = "live" /\ cb.MediaPlayer
    /\ game.pc = "idle" => game.cont = "none"
    /\ InUninitialize /\ game.cont \in {"close", "destroy"} => fault = "none"

C14_FailedRegistrationCleanedUp ==
    /\ [](game.cont = "openfail" =>
            /\ ~sdk.registered /\ ~sdk.shutdownPending /\ ~sdk.holdsRef
            /\ game.pc = "un_unlock" => cb.obj = "freed" /\ cb.RefCounter = 0)
    /\ [][game.cont = "openfail" /\ game.pc = "un_unlock"
             /\ (game' # game \/ fault' # fault)
            => /\ fault' = "none"
               /\ game'.pc = "idle"
               /\ player'.openResult = "false" /\ ~player'.EventCallback
               /\ cb'.obj = "freed"]_vars

C16_CallbackLifetime ==
    /\ fault # "release_on_freed"
    /\ cb.obj = "freed" =>
          /\ ~sdk.holdsRef
          /\ game.pc \notin {"un_dec", "un_chk"}
          /\ sdk.pc # "rel_chk"

\* C17 (Spec). Initialization is not lost: once OnInitializationCompleted(true)
\* has made the capture state Playing, the state of the callback object stays
\* Playing unless an error event makes it Error or Uninitialize (a Close)
\* makes it Stopped, whether or not Initialize had stored the registration
\* result when the callback ran; a TickInput that then reads Playing takes the
\* player to Playing.
C17_InitializationNotLost ==
    [][/\ cb.obj = "live" /\ cb.MediaState = "Playing" /\ cb'.obj = "live"
          => cb'.MediaState \in {"Playing", "Error", "Stopped"}
       /\ cb.obj = "live" /\ cb.MediaState = "Playing" /\ player.EventCallback
            /\ player'.CurrentState # player.CurrentState
          => player'.CurrentState = "Playing"]_vars

\* C18 (Spec). Back-reference cleared means no access: no callback of the SDK
\* calls into a player that was destroyed or through a null back-reference;
\* OnFrameReceived handles a frame with CallbackLock held and the
\* back-reference set; and when OnFrameFormatChanged calls into the player
\* through the back-reference it has read, Uninitialize has not cleared the
\* back-reference and the callback holds CallbackLock.
C18_ClearedMeansNoAccess ==
    /\ [](fault \notin {"format_on_freed_player", "frame_on_freed_player",
                        "frame_null_player"})
    /\ [](sdk.pc = "frame_body" => cb.CallbackLock = "sdk" /\ cb.MediaPlayer)
    /\ [][sdk.pc = "format_url" /\ sdk'.pc = "idle" /\ sdk.ptr
            => cb.MediaPlayer /\ cb.CallbackLock = "sdk"]_vars

\* The SDK thread is inside OnFrameReceived (lines 166-363)
InOnFrameReceived == sdk.pc \in {"frame_lock", "frame_body"}

C20_LockOutlivesUse ==
    /\ cb.obj = "freed" => cb.CallbackLock # "game"
    /\ game.pc = "un_unlock" => cb.obj = "live"
    /\ fault # "unlock_of_freed_lock"

C22_SignalLossAfterConnection ==
    [][HandlesFrame /\ IsNoSignal(sdk.frame) /\ delivered = 1
          => /\ cb'.MediaState = "Error"
             /\ player'.AudioSamples = player.AudioSamples
             /\ player'.VideoSamples = player.VideoSamples]_vars

\* The first event without a signal after a frame with an input source was
\* handled before the allowed time had passed, and the state is Error
C22_Witness ==
    /\ delivered = 1 /\ firstNoSignal # -1
    /\ firstNoSignal - ConnectStart(cb, firstNoSignal) <= TimeAllowedToConnect
    /\ cb.obj = "live" /\ cb.MediaState = "Error"
    /\ sdk.pc = "idle" /\ sdk.frame = NoFrame
    /\ fault = "none"

====
